---- MODULE Spec2Model ----
(***************************************************************************)
(* Model of src/spheroids/cpp/converter.hpp: the conversions between       *)
(* row-major numpy buffers and column-major Armadillo vectors/matrices,    *)
(* and the Moebius transformation on the sphere, Moebius_S.                *)
(*                                                                         *)
(* A double is modelled as an exact rational <<num, den>> in lowest terms  *)
(* with den > 0, extended by the IEEE-754 non-finite values                *)
(* <<1,0>> = +Inf, <<-1,0>> = -Inf and <<0,0>> = NaN.  Rounding is not     *)
(* modelled; signed zeros are not modelled (a zero divisor is +0).         *)
(***************************************************************************)
EXTENDS Integers, Sequences, FiniteSets

VARIABLES pc, pyin, vec, mat, pyout, err, nalloc, X, mu, rho, Y

vars == <<pc, pyin, vec, mat, pyout, err, nalloc, X, mu, rho, Y>>

(***************************************************************************)
(* Bounds of the explored inputs.                                          *)
(***************************************************************************)
MaxRank == 3
MaxElems == 6
MaxElemsX == 4
MaxMuLen == 2
MaxGarbageDim == 2

(***************************************************************************)
(* double arithmetic                                                       *)
(***************************************************************************)
Abs(n) == IF n < 0 THEN 0 - n ELSE n

Sign(n) == IF n < 0 THEN 0 - 1 ELSE IF n > 0 THEN 1 ELSE 0

RECURSIVE GCD(_, _)
GCD(a, b) == IF b = 0 THEN a ELSE GCD(b, a % b)

\* the double with value n/d, d # 0
R(n, d) ==
    LET g == GCD(Abs(n), Abs(d))
    IN  <<Sign(d) * (n \div g), Abs(d) \div g>>

NaN == <<0, 0>>

Inf(s) == <<s, 0>>

IsNaN(a) == a = NaN

IsFinite(a) == a[2] # 0

Zero == <<0, 1>>

One == <<1, 1>>

Two == <<2, 1>>

\* a + b
Add(a, b) ==
    IF IsNaN(a) \/ IsNaN(b) THEN NaN
    ELSE IF ~IsFinite(a) /\ ~IsFinite(b) THEN (IF a = b THEN a ELSE NaN)
    ELSE IF ~IsFinite(a) THEN a
    ELSE IF ~IsFinite(b) THEN b
    ELSE R(a[1] * b[2] + b[1] * a[2], a[2] * b[2])

\* a * b
Mul(a, b) ==
    IF IsNaN(a) \/ IsNaN(b) THEN NaN
    ELSE IF ~IsFinite(a) \/ ~IsFinite(b)
         THEN (IF a[1] = 0 \/ b[1] = 0 THEN NaN ELSE Inf(Sign(a[1]) * Sign(b[1])))
    ELSE R(a[1] * b[1], a[2] * b[2])

\* a - b
Sub(a, b) == Add(a, <<0 - b[1], b[2]>>)

\* a / b
Div(a, b) ==
    IF IsNaN(a) \/ IsNaN(b) THEN NaN
    ELSE IF ~IsFinite(a) /\ ~IsFinite(b) THEN NaN
    ELSE IF ~IsFinite(b) THEN Zero
    ELSE IF ~IsFinite(a) THEN Inf(IF b[1] < 0 THEN 0 - a[1] ELSE a[1])
    ELSE IF b[1] = 0 THEN (IF a[1] = 0 THEN NaN ELSE Inf(Sign(a[1])))
    ELSE R(a[1] * b[2], a[2] * b[1])

(***************************************************************************)
(* Buffers.  A py::array_t<double> is [shape, data, buf]: data is the      *)
(* C-contiguous (row-major) buffer and buf names the allocation.  An       *)
(* arma::vec is [n_elem, mem, buf]; an arma::mat is                        *)
(* [n_rows, n_cols, mem, buf] with mem in column-major order.              *)
(***************************************************************************)
RECURSIVE Prod(_)
Prod(s) == IF s = <<>> THEN 1 ELSE Head(s) * Prod(Tail(s))

\* element (i, j), 0-based, of a rank-2 row-major array
PyAt(a, i, j) == a.data[i * a.shape[2] + j + 1]

\* M.at(i, j): element (i, j), 0-based, of a column-major matrix
MatAt(M, i, j) == M.mem[i + j * M.n_rows + 1]

\* std::memcpy(dst, src, n * sizeof(double))
memcpy(src, n) == [k \in 1..n |-> src[k]]

\* the allocation a newly constructed object receives
NewBuf == nalloc + 1

NoArr == [shape |-> <<>>, data |-> <<>>, buf |-> 0 - 1]

NoVec == [n_elem |-> 0, mem |-> <<>>, buf |-> 0 - 1]

NoMat == [n_rows |-> 0, n_cols |-> 0, mem |-> <<>>, buf |-> 0 - 1]

\* arma::Mat(ptr, n_rows, n_cols, copy_aux_mem = false, strict = false)
AuxMat(ptr, buf, n_rows, n_cols) ==
    [n_rows |-> n_rows, n_cols |-> n_cols,
     mem |-> memcpy(ptr, n_rows * n_cols), buf |-> buf]

\* M.t() evaluated into a new arma::mat
Trans(M) ==
    [n_rows |-> M.n_cols, n_cols |-> M.n_rows,
     mem |-> [k \in 1..(M.n_rows * M.n_cols) |->
                 IF M.n_cols = 0 THEN Zero
                 ELSE MatAt(M, (k - 1) \div M.n_cols, (k - 1) % M.n_cols)],
     buf |-> NewBuf]

(***************************************************************************)
(* The conversions                                                         *)
(***************************************************************************)
\* a thrown exception in place of a returned arma::vec
Thrown(what) == [thrown |-> what, n_elem |-> 0, mem |-> <<>>, buf |-> 0 - 1]

\* pyarray_to_arma_vec with the rank test relaxed: every rank but 1 is flattened
pyarray_to_arma_vec_flatten(arr) ==
    LET ndim == Len(arr.shape)
    IN  IF ndim = 1
        THEN [thrown |-> "", n_elem |-> arr.shape[1],
              mem |-> memcpy(arr.data, arr.shape[1]), buf |-> arr.buf]
        ELSE LET length == Prod(arr.shape)
             IN  [thrown |-> "", n_elem |-> length,
                  mem |-> memcpy(arr.data, length), buf |-> arr.buf]

\* Convert a Python array to an arma::vec
pyarray_to_arma_vec(arr) ==
    LET ndim == Len(arr.shape)
    IN  IF ndim = 1
        THEN [thrown |-> "", n_elem |-> arr.shape[1],
              mem |-> memcpy(arr.data, arr.shape[1]), buf |-> arr.buf]
        ELSE IF ndim = 2
        THEN LET length == arr.shape[1] * arr.shape[2]
             IN  [thrown |-> "", n_elem |-> length,
                  mem |-> memcpy(arr.data, length), buf |-> arr.buf]
        ELSE Thrown("runtime_error: Expected a 1D or 2D vector.")

\* pyarray_to_arma_mat without the transposition: the buffer taken as (n x d)
\* column-major
pyarray_to_arma_mat_noT(arr) ==
    AuxMat(arr.data, NewBuf, arr.shape[1], arr.shape[2])

\* Convert a Python array to an arma::mat
pyarray_to_arma_mat(arr) ==
    LET M == AuxMat(arr.data, arr.buf, arr.shape[2], arr.shape[1])
    IN  Trans(M)

\* arma_vec_to_pyarray copying n_elem bytes instead of n_elem doubles; the
\* rest of the new buffer keeps its initial content
arma_vec_to_pyarray_bytes(v) ==
    [shape |-> <<v.n_elem>>,
     data |-> [k \in 1..v.n_elem |-> IF k <= v.n_elem \div 8 THEN v.mem[k] ELSE Zero],
     buf |-> NewBuf]

\* Convert an arma::vec to a Python array
arma_vec_to_pyarray(v) ==
    [shape |-> <<v.n_elem>>, data |-> memcpy(v.mem, v.n_elem), buf |-> NewBuf]

\* Convert an arma::mat to a Python array
arma_mat_to_pyarray(M) ==
    [shape |-> <<M.n_rows, M.n_cols>>,
     data |-> memcpy(M.mem, M.n_rows * M.n_cols), buf |-> NewBuf]

(***************************************************************************)
(* The caller's arrays: every rank up to MaxRank, every shape holding at   *)
(* most MaxElems elements, every 0/1 content.                              *)
(***************************************************************************)
Vals == {Zero, One}

Shapes == UNION {{s \in [1..k -> 0..MaxElems] : Prod(s) <= MaxElems} : k \in 0..MaxRank}

Arrays == UNION {{[shape |-> s, data |-> d, buf |-> 0] : d \in [1..Prod(s) -> Vals]} : s \in Shapes}

Init ==
    /\ pc = "start"
    /\ pyin \in Arrays
    /\ vec = NoVec
    /\ mat = NoMat
    /\ pyout = NoArr
    /\ err = ""
    /\ nalloc = 0
    /\ X = NoMat
    /\ mu = NoVec
    /\ rho = Zero
    /\ Y = NoMat

\* to_vector(array)
ToVector ==
    /\ pc = "start"
    /\ LET r == pyarray_to_arma_vec(pyin)
       IN  IF r.thrown # ""
           THEN /\ pc' = "failed"
                /\ err' = r.thrown
                /\ vec' = vec
           ELSE /\ pc' = "vec"
                /\ err' = err
                /\ vec' = [n_elem |-> r.n_elem, mem |-> r.mem, buf |-> r.buf]
    /\ UNCHANGED <<pyin, mat, pyout, nalloc, X, mu, rho, Y>>

\* buf.shape as pyarray_to_arma_mat reads it: shape[0] and shape[1] without a
\* rank test, so below rank 2 a read past the end of the shape vector, which
\* yields whatever the memory holds (sample values 0..MaxGarbageDim)
ShapeReads(arr) ==
    IF Len(arr.shape) >= 2 THEN {arr.shape}
    ELSE {[k \in 1..2 |-> IF k <= Len(arr.shape) THEN arr.shape[k] ELSE g[k]] :
             g \in [1..2 -> 0..MaxGarbageDim]}

\* the first n doubles at buf.ptr: the array's own elements, and past the end
\* of the buffer whatever the memory holds (two sample contents)
DataReads(arr, n) ==
    {[k \in 1..(IF n > Len(arr.data) THEN n ELSE Len(arr.data)) |->
         IF k <= Len(arr.data) THEN arr.data[k] ELSE g] : g \in Vals}

\* the buffer_info as the unchecked reads of pyarray_to_arma_mat see it
BufferReads(arr) ==
    UNION {{[shape |-> s, data |-> d, buf |-> arr.buf] :
               d \in DataReads(arr, s[1] * s[2])} : s \in ShapeReads(arr)}

\* the call reads out of range: the shape below rank 2, or more doubles than
\* the buffer holds (a higher rank with a zero dimension after the second)
UndefinedRead(arr) ==
    IF Len(arr.shape) < 2 THEN TRUE
    ELSE arr.shape[1] * arr.shape[2] > Len(arr.data)

\* to_matrix(array): no rank test; a rank above 2 is silently cut to the
\* leading shape[0] x shape[1] block of the buffer
ToMatrix ==
    /\ pc = "start"
    /\ \E seen \in BufferReads(pyin) : mat' = pyarray_to_arma_mat(seen)
    /\ nalloc' = nalloc + 1
    /\ pc' = "mat"
    /\ UNCHANGED <<pyin, vec, pyout, err, X, mu, rho, Y>>

\* to_matrix(array) where the out-of-range read faults instead of returning
ToMatrixFault ==
    /\ pc = "start"
    /\ UndefinedRead(pyin)
    /\ pc' = "crashed"
    /\ err' = "fault: read out of range"
    /\ UNCHANGED <<pyin, vec, mat, pyout, nalloc, X, mu, rho, Y>>

\* vector_to_array(vector)
VectorToArray ==
    /\ pc = "vec"
    /\ pyout' = arma_vec_to_pyarray(vec)
    /\ nalloc' = nalloc + 1
    /\ pc' = "vec_out"
    /\ UNCHANGED <<pyin, vec, mat, err, X, mu, rho, Y>>

\* matrix_to_array(matrix)
MatrixToArray ==
    /\ pc = "mat"
    /\ pyout' = arma_mat_to_pyarray(mat)
    /\ nalloc' = nalloc + 1
    /\ pc' = "mat_out"
    /\ UNCHANGED <<pyin, vec, mat, err, X, mu, rho, Y>>

Next == ToVector \/ ToMatrix \/ ToMatrixFault \/ VectorToArray \/ MatrixToArray

Spec == Init /\ [][Next]_vars

(***************************************************************************)
(* Armadillo expressions used by Moebius_S.  A row or column vector        *)
(* operand is the sequence of its elements.                                *)
(***************************************************************************)
\* the result of an element-wise expression over M: M's shape, the elements
\* mem, a new allocation
MatLike(M, mem) ==
    [n_rows |-> M.n_rows, n_cols |-> M.n_cols, mem |-> mem, buf |-> NewBuf]

\* the row and the column (0-based) of the k-th element of M's memory
RowOf(M, k) == (k - 1) % M.n_rows

ColOf(M, k) == (k - 1) \div M.n_rows

\* s * v and s * v.t()
VecScale(s, v) == [k \in 1..Len(v) |-> Mul(s, v[k])]

\* s * M
MatScale(s, M) == MatLike(M, [k \in 1..Len(M.mem) |-> Mul(s, M.mem[k])])

\* M.each_row() + r: r[j] is added to column j
EachRowPlus(M, r) ==
    MatLike(M, [k \in 1..Len(M.mem) |-> Add(M.mem[k], r[ColOf(M, k) + 1])])

\* M.each_col() / c: row i is divided by c[i]
EachColDiv(M, c) ==
    MatLike(M, [k \in 1..Len(M.mem) |-> Div(M.mem[k], c[RowOf(M, k) + 1])])

\* sum over columns j .. n_cols-1 of M(i, j) * v[j]
RECURSIVE RowTimes(_, _, _, _)
RowTimes(M, v, i, j) ==
    IF j >= M.n_cols THEN Zero
    ELSE Add(Mul(MatAt(M, i, j), v[j + 1]), RowTimes(M, v, i, j + 1))

\* M * v, a column vector of M.n_rows elements
MatVec(M, v) == [k \in 1..M.n_rows |-> RowTimes(M, v, k - 1, 0)]

\* Denominator with the rho*rho term left out
Denominator_noRhoSq(XX, m, r) ==
    LET p == MatVec(MatScale(Mul(Two, r), XX), m.mem)
    IN  [k \in 1..Len(p) |-> Add(One, p[k])]

\* the column vector 1 + 2*rho*X*mu + rho*rho
Denominator(XX, m, r) ==
    LET p == MatVec(MatScale(Mul(Two, r), XX), m.mem)
    IN  [k \in 1..Len(p) |-> Add(Add(One, p[k]), Mul(r, r))]

\* Moebius_S without its last statement
Moebius_S_noShift(XX, m, r) ==
    LET rmu == VecScale(r, m.mem)
        Y1 == MatScale(Sub(One, Mul(r, r)), EachRowPlus(XX, rmu))
        Y2 == EachColDiv(Y1, Denominator(XX, m, r))
    IN  Y2

\* Moebius_S adding mu.t() where the code adds rho*mu.t()
Moebius_S_mu(XX, m, r) ==
    LET Y1 == MatScale(Sub(One, Mul(r, r)), EachRowPlus(XX, m.mem))
        Y2 == EachColDiv(Y1, Denominator(XX, m, r))
        Y3 == EachRowPlus(Y2, m.mem)
    IN  Y3

\* Moebius_S scaling by (1-rho) where the code scales by (1-rho*rho)
Moebius_S_scale(XX, m, r) ==
    LET rmu == VecScale(r, m.mem)
        Y1 == MatScale(Sub(One, r), EachRowPlus(XX, rmu))
        Y2 == EachColDiv(Y1, Denominator(XX, m, r))
        Y3 == EachRowPlus(Y2, rmu)
    IN  Y3

Moebius_S(XX, m, r) ==
    LET rmu == VecScale(r, m.mem)
        Y1 == MatScale(Sub(One, Mul(r, r)), EachRowPlus(XX, rmu))
        Y2 == EachColDiv(Y1, Denominator(XX, m, r))
        Y3 == EachRowPlus(Y2, rmu)
    IN  Y3

(***************************************************************************)
(* The inputs of the transformation: every matrix of at most MaxElemsX     *)
(* elements over XEntries, every vector of at most MaxMuLen elements over  *)
(* MuEntries, every rho of RhoVals.                                        *)
(***************************************************************************)
XEntries == {R(0 - 1, 1), Zero, One}

MuEntries == {Zero, One, R(3, 5), R(4, 5)}

RhoVals == {R(0 - 1, 2), Zero, R(1, 2), One}

XShapes ==
    {s \in (1..MaxElemsX) \X (1..(MaxMuLen + 1)) : s[1] * s[2] <= MaxElemsX}

Matrices ==
    UNION {{[n_rows |-> s[1], n_cols |-> s[2], mem |-> d, buf |-> 1] :
               d \in [1..(s[1] * s[2]) -> XEntries]} : s \in XShapes}

Vectors ==
    UNION {{[n_elem |-> n, mem |-> d, buf |-> 2] : d \in [1..n -> MuEntries]} :
              n \in 1..MaxMuLen}

InitMoebius ==
    /\ pc = "mstart"
    /\ X \in Matrices
    /\ mu \in Vectors
    /\ rho \in RhoVals
    /\ Y = NoMat
    /\ err = ""
    /\ nalloc = 2
    /\ pyin = NoArr
    /\ vec = NoVec
    /\ mat = NoMat
    /\ pyout = NoArr

\* each_row()'s size test accepting every row vector at least as long as the
\* matrix has columns
EachRowConforms_atLeast(M, r) == Len(r) >= M.n_cols

\* the size test of X.each_row() + r: r is 1 x X.n_cols
EachRowConforms(M, r) == Len(r) = M.n_cols

\* moebius_transform(X, mu, rho), mu as long as X has columns
Moebius ==
    /\ pc = "mstart"
    /\ EachRowConforms(X, VecScale(rho, mu.mem))
    /\ Y' = Moebius_S(X, mu, rho)
    /\ nalloc' = nalloc + 1
    /\ pc' = "mdone"
    /\ UNCHANGED <<pyin, vec, mat, pyout, err, X, mu, rho>>

\* mu longer or shorter than X has columns: the first statement's
\* X.each_row() + rho*mu.t() fails the size test and raises std::logic_error
\* before any result exists
MoebiusMismatch ==
    /\ pc = "mstart"
    /\ ~EachRowConforms(X, VecScale(rho, mu.mem))
    /\ err' = "logic_error: each_row(): incompatible size"
    /\ pc' = "mfailed"
    /\ UNCHANGED <<pyin, vec, mat, pyout, nalloc, X, mu, rho, Y>>

NextMoebius == Moebius \/ MoebiusMismatch

SpecMoebius == InitMoebius /\ [][NextMoebius]_vars

(***************************************************************************)
(* Properties                                                              *)
(***************************************************************************)
\* row i (0-based) of a matrix
Row(M, i) == [j \in 1..M.n_cols |-> MatAt(M, i, j - 1)]

\* x . m
RECURSIVE Dot(_, _)
Dot(x, m) ==
    IF x = <<>> THEN Zero
    ELSE Add(Mul(Head(x), Head(m)), Dot(Tail(x), Tail(m)))

UnitNorm(x) == Dot(x, x) = One

\* a > 0
Positive(a) == a[1] > 0

\* the image of the point x: rho*mu + (1-rho^2)*(x + rho*mu)/(1 + 2*rho*(x.mu) + rho^2)
MoebiusPoint(x, m, r) ==
    LET D == Add(Add(One, Mul(Mul(Two, r), Dot(x, m))), Mul(r, r))
        s == Sub(One, Mul(r, r))
    IN  [j \in 1..Len(x) |->
            Add(Mul(r, m[j]), Div(Mul(s, Add(x[j], Mul(r, m[j]))), D))]

\* |a - b| <= 1e-9
Within1e9(a, b) ==
    LET e == Sub(a, b)
    IN  /\ IsFinite(e)
        /\ \/ e[1] = 0
           \/ e[2] \div Abs(e[1]) >= 1000000000

\* C1: matrix_to_array(to_matrix(A)) has A's shape (n, d), n >= 1, d >= 1, and
\* equals A element for element.
C1_MatrixRoundTrip ==
    (pc = "mat_out" /\ Len(pyin.shape) = 2 /\ pyin.shape[1] >= 1 /\ pyin.shape[2] >= 1) =>
        /\ pyout.shape = pyin.shape
        /\ \A i \in 0..(pyin.shape[1] - 1) : \A j \in 0..(pyin.shape[2] - 1) :
               PyAt(pyout, i, j) = PyAt(pyin, i, j)

\* C2: matrix_to_array(M) is a new row-major array of shape (n_rows, n_cols)
\* whose element (i, j) is M(i, j).
C2_MatrixToArrayElements ==
    pc = "mat_out" =>
        /\ pyout.shape = <<mat.n_rows, mat.n_cols>>
        /\ pyout.buf # mat.buf
        /\ \A i \in 0..(mat.n_rows - 1) : \A j \in 0..(mat.n_cols - 1) :
               PyAt(pyout, i, j) = MatAt(mat, i, j)

\* C3: to_matrix(arr) of a rank-2 array of shape (n, d) is a matrix of n rows
\* and d columns whose element (i, j) is arr(i, j).
C3_ToMatrixElements ==
    (pc \in {"mat", "mat_out"} /\ Len(pyin.shape) = 2) =>
        /\ mat.n_rows = pyin.shape[1]
        /\ mat.n_cols = pyin.shape[2]
        /\ Len(mat.mem) = pyin.shape[1] * pyin.shape[2]
        /\ \A i \in 0..(pyin.shape[1] - 1) : \A j \in 0..(pyin.shape[2] - 1) :
               MatAt(mat, i, j) = PyAt(pyin, i, j)

\* a (2, 3) array with arr(0, 1) # arr(1, 0) has been converted
C3_Witness ==
    /\ pc = "mat"
    /\ pyin.shape = <<2, 3>>
    /\ PyAt(pyin, 0, 1) # PyAt(pyin, 1, 0)
    /\ MatAt(mat, 0, 1) = PyAt(pyin, 0, 1)

\* C4: with mu as long as X has columns, Moebius_S returns Y of X's shape whose
\* row i is the image of row i of X alone under the point map.
C4_RowFormula ==
    (pc = "mdone" /\ mu.n_elem = X.n_cols) =>
        /\ Y.n_rows = X.n_rows
        /\ Y.n_cols = X.n_cols
        /\ Len(Y.mem) = X.n_rows * X.n_cols
        /\ \A i \in 0..(X.n_rows - 1) : Row(Y, i) = MoebiusPoint(Row(X, i), mu.mem, rho)

\* two different rows of a (2, 2) matrix were mapped to two different finite rows
C4_Witness ==
    /\ pc = "mdone"
    /\ X.n_rows = 2 /\ X.n_cols = 2 /\ mu.n_elem = 2
    /\ rho = R(1, 2)
    /\ mu.mem = <<R(3, 5), R(4, 5)>>
    /\ Row(X, 0) # Row(X, 1)
    /\ Row(Y, 0) # Row(Y, 1)
    /\ \A k \in 1..4 : IsFinite(Y.mem[k])

\* X = [[1,0],[0,1]], mu = [1,0], rho = 0.5
Scenario ==
    /\ X.n_rows = 2 /\ X.n_cols = 2
    /\ Row(X, 0) = <<One, Zero>>
    /\ Row(X, 1) = <<Zero, One>>
    /\ mu.mem = <<One, Zero>>
    /\ rho = R(1, 2)

\* C5 as stated: in the scenario the first output row is [13/14, 0] to within 1e-9.
C5_Scenario_13_14 ==
    (pc = "mdone" /\ Scenario) =>
        /\ Within1e9(MatAt(Y, 0, 0), R(13, 14))
        /\ Within1e9(MatAt(Y, 0, 1), Zero)

\* C5 amended: in the scenario the first output row is [1, 0]
\* (0.5 + 0.75*1.5/2.25: the divisor is 1 + 2*0.5*1 + 0.25 = 2.25).
C5_Scenario_One ==
    (pc = "mdone" /\ Scenario) => Row(Y, 0) = <<One, Zero>>

C5_Witness == pc = "mdone" /\ Scenario /\ Y.n_rows = 2 /\ MatAt(Y, 0, 0) = One

\* C6: Moebius_S(X, mu, 0) equals X element for element.
C6_IdentityAtZero ==
    (pc = "mdone" /\ mu.n_elem = X.n_cols /\ rho = Zero) =>
        /\ Y.n_rows = X.n_rows
        /\ Y.n_cols = X.n_cols
        /\ Y.mem = X.mem

\* rho = 0 was applied to a (2, 2) matrix of two different rows with a nonzero mu
C6_Witness ==
    /\ pc = "mdone"
    /\ rho = Zero
    /\ X.n_rows = 2 /\ X.n_cols = 2
    /\ mu.mem = <<R(3, 5), R(4, 5)>>
    /\ Row(X, 0) = <<One, R(0 - 1, 1)>>
    /\ Row(X, 1) = <<Zero, One>>
    /\ Y.mem = X.mem

\* C7: to_vector fails with the shape error, producing no vector, for every
\* rank other than 1 and 2, and for rank 1 or 2 returns without error a vector
\* of as many elements as the array holds.
C7_ToVectorRanks ==
    pc \in {"vec", "vec_out", "failed"} =>
        IF Len(pyin.shape) \in {1, 2}
        THEN /\ pc # "failed"
             /\ err = ""
             /\ vec.n_elem = Prod(pyin.shape)
             /\ Len(vec.mem) = vec.n_elem
        ELSE /\ pc = "failed"
             /\ err = "runtime_error: Expected a 1D or 2D vector."
             /\ vec = NoVec

\* a rank-3 array of 4 elements was rejected
C7_Witness ==
    /\ pc = "failed"
    /\ pyin.shape = <<2, 1, 2>>
    /\ err # ""
    /\ vec = NoVec

\* C8: moebius_transform fails with the size error, returning no matrix,
\* whenever mu's length differs from X's column count, and returns a matrix
\* only when they agree.
C8_MismatchFails ==
    /\ (pc \in {"mdone", "mfailed"} /\ mu.n_elem # X.n_cols) =>
           /\ pc = "mfailed"
           /\ err = "logic_error: each_row(): incompatible size"
           /\ Y = NoMat
           /\ nalloc = 2
    /\ pc = "mdone" => (mu.n_elem = X.n_cols /\ err = "")
    /\ pc = "mfailed" => mu.n_elem # X.n_cols

\* a call with a (1, 1) matrix and a mu of 2 elements has failed
C8_Witness ==
    /\ pc = "mfailed"
    /\ X.n_rows = 1 /\ X.n_cols = 1
    /\ mu.n_elem = 2
    /\ err # ""
    /\ Y = NoMat

\* C9: vector_to_array(to_vector(a)) of a 1D array a is a newly allocated 1D
\* array of a's length that equals a element for element.
C9_VectorRoundTrip ==
    (pc = "vec_out" /\ Len(pyin.shape) = 1) =>
        /\ pyout.shape = pyin.shape
        /\ pyout.data = pyin.data
        /\ pyout.buf # pyin.buf
        /\ pyout.buf # vec.buf

\* a 1D array of 3 elements, not all equal, made the round trip
C9_Witness ==
    /\ pc = "vec_out"
    /\ pyin.shape = <<3>>
    /\ pyin.data = <<One, Zero, One>>
    /\ pyout.data = pyin.data

\* C10: for -1 < rho < 1, unit mu and unit rows of X, every divisor is
\* positive and every output row has squared norm 1.
C10_SpherePreserved ==
    (/\ pc = "mdone"
     /\ mu.n_elem = X.n_cols
     /\ Positive(Add(One, rho)) /\ Positive(Sub(One, rho))
     /\ UnitNorm(mu.mem)
     /\ \A i \in 0..(X.n_rows - 1) : UnitNorm(Row(X, i))) =>
        \A i \in 0..(X.n_rows - 1) :
            /\ Positive(Denominator(X, mu, rho)[i + 1])
            /\ Dot(Row(Y, i), Row(Y, i)) = One

\* unit points were mapped with rho = 1/2 and mu = (3/5, 4/5) to unit points
\* other than themselves
C10_Witness ==
    /\ pc = "mdone"
    /\ rho = R(1, 2)
    /\ mu.mem = <<R(3, 5), R(4, 5)>>
    /\ X.n_rows = 2 /\ X.n_cols = 2
    /\ Row(X, 0) = <<Zero, One>>
    /\ Row(X, 1) = <<R(0 - 1, 1), Zero>>
    /\ Row(Y, 0) # Row(X, 0)
    /\ UnitNorm(Row(Y, 0)) /\ UnitNorm(Row(Y, 1))

====
